---------------------------- MODULE Spec2Model ----------------------------
(***************************************************************************)
(* The training pipeline of torchbeast/polybeast.py: train() with its      *)
(* reporting loop, checkpointing and shutdown; the policy-learner threads  *)
(* (learn), the discriminator-learner threads (learn_D), the inference     *)
(* threads (inference), the image loader (data_loader) and the actor pool. *)
(*                                                                         *)
(* Weights, optimizer states and schedule states are modelled by the       *)
(* number of optimizer/schedule steps they reflect.  The actor-facing      *)
(* policy copy has two parameter groups, because load_state_dict copies    *)
(* parameter by parameter.  The libtorchbeast classes (BatchingQueue,      *)
(* DynamicBatcher, ActorPool) are not part of the Python source; their     *)
(* behaviour is taken from the specification's sections 4.1 - 4.3.         *)
(***************************************************************************)
EXTENDS Integers, Sequences, FiniteSets, TLC

\* ---------------------------------------------------------------- flags

\* flags.num_learner_threads (also the number of learn_D threads)
NumLearnerThreads == 2
\* flags.num_inference_threads
NumInferenceThreads == 1
\* flags.num_actors and flags.batch_size: the setting of the runs that follow
\* the learners through several updates
NumActors == 1
BatchSize == 1
\* and the setting of the runs that look at how unrolls and requests are batched
ManyActors == 2
LargeBatchSize == 2
\* The actor loops any of the settings has.
ActorIds == 1..ManyActors
\* flags.unroll_length
UnrollLength == 1
\* flags.total_steps
TotalSteps == 1
\* Unrolls the environments deliver in a run of the process.
MaxUnrolls == 2
\* Runs of the process: the first one and the restarts from the checkpoint.
MaxRuns == 2
\* Unrolls per run where the job is restarted: the runs share the unrolls.
ResumeUnrolls == MaxUnrolls \div MaxRuns

\* The value of a flag that was not given.
None == 0

\* DynamicBatcher(minimum_batch_size=1, maximum_batch_size=512)
MinimumBatchSize == 1
MaximumBatchSize == 512

VARIABLES
    \* flags: num_actors, batch_size, max_learner_queue_size (None when not given)
    num_actors, batch_size, max_learner_queue_size,
    \* the shapes of the unrolls the environment servers give rise to
    env_shapes,
    \* train()
    main_pc, join_idx, disable_checkpoint, interrupted, disk, last_ckpt, runs,
    \* models, optimizers, schedules
    model_w, opt_n, sched_n, D_w, Dopt_n, Dsched_n, actor_w, D_eval,
    \* Stats
    stats,
    \* locks (0 = free, otherwise the holder)
    learn_lock, D_lock, inf_lock,
    \* learn threads: the batch in hand (its number, the shapes of the unrolls
    \* stacked in it)
    learner_pc, learner_batch, learner_rows, learner_step,
    \* learn_D threads
    dl_pc, dl_pair,
    \* inference threads: the rows (requests, named by their actor) of the batch
    \* in hand, the images still to fetch, the rows with done set, the rows that
    \* got a newly fetched image
    inf_pc, inf_batch, inf_need, inf_done, inf_fresh,
    \* queues
    \* (the learner queue: the number of unrolls in it and their shapes)
    learner_queue, queue_shapes, queue_closed, next_batch, pending, batcher_closed,
    d_queue, image_queue,
    \* actor pool
    pool_pc, actor_pc, actor_steps, supply,
    \* data_loader thread
    loader_pc,
    \* history: what the last checkpoint write saw, the step count the run
    \* started from, the updates completed in this run, the batches whose
    \* pair was forwarded and whose update was applied
    atWrite, step0, n_completed, forwarded, applied,
    \* history: the unrolls put on the learner queue so far, the unrolls
    \* delivered in a batch (each named by its place in the order of the puts),
    \* the pairs the learn_D threads have taken
    n_put, delivered, n_consumed,
    \* the returns of one batch in learn(): flags.use_tca, the unroll taken from
    \* the learner queue with the outputs of the learner's forward passes, the
    \* place in the computation, the local reward, the arguments and the result
    \* of vtrace.from_logits
    use_tca, tensors, calc_pc, reward, vtrace_args, vtrace_returns

flagVars == <<disable_checkpoint, num_actors, batch_size, max_learner_queue_size, env_shapes>>
mainVars == <<main_pc, join_idx, flagVars, interrupted, disk, last_ckpt, runs>>
modelVars == <<model_w, opt_n, sched_n, D_w, Dopt_n, Dsched_n, actor_w, D_eval>>
lockVars == <<learn_lock, D_lock, inf_lock>>
learnerVars == <<learner_pc, learner_batch, learner_rows, learner_step>>
dlVars == <<dl_pc, dl_pair>>
infVars == <<inf_pc, inf_batch, inf_need, inf_done, inf_fresh>>
queueVars == <<learner_queue, queue_shapes, queue_closed, next_batch, pending, batcher_closed,
               d_queue, image_queue>>
actorVars == <<pool_pc, actor_pc, actor_steps, supply, loader_pc>>
countVars == <<n_put, delivered, n_consumed>>
histVars == <<atWrite, step0, n_completed, forwarded, applied, countVars>>

mathVars == <<use_tca, tensors, calc_pc, reward, vtrace_args, vtrace_returns>>
pipeVars == <<mainVars, modelVars, stats, lockVars, learnerVars, dlVars, infVars,
             queueVars, actorVars, histVars>>

vars == <<pipeVars, mathVars>>

\* The threads are modelled without the numbers they compute: the computation
\* of the returns is at rest.
MathIdle ==
    /\ use_tca = FALSE
    /\ tensors = <<>>
    /\ calc_pc = "idle"
    /\ reward = <<>>
    /\ vtrace_args = <<>>
    /\ vtrace_returns = <<>>

\* ---------------------------------------------------------------- derived settings

\* flags.max_learner_queue_size, defaulted to the batch size when it is None
MaxLearnerQueueSize ==
    IF max_learner_queue_size = None THEN batch_size ELSE max_learner_queue_size
\* Queue(maxsize=flags.max_learner_queue_size // flags.batch_size)
DQueueMaxSize == MaxLearnerQueueSize \div batch_size
\* Queue(maxsize=flags.max_learner_queue_size)
ImageQueueMaxSize == MaxLearnerQueueSize
\* flags.unroll_length * flags.batch_size, the step count of one update
StepsPerUpdate == UnrollLength * batch_size

Learners == 1..NumLearnerThreads
DLearners == 1..NumLearnerThreads
InfThreads == 1..NumInferenceThreads
Actors == 1..num_actors

\* ---------------------------------------------------------------- helpers

\* stats.get("step", 0)
StatsGetStep(s) == IF "step" \in DOMAIN s THEN s["step"] ELSE 0

\* stats[key] = value
StatsSet(s, key, value) == (key :> value) @@ s

\* stats = {}
EmptyStats == [k \in {} |-> 0]

\* os.path.exists(checkpointpath) is false
NoFile == [exists |-> FALSE]

\* The record torch.save receives in checkpoint(): each component under its key.
CheckpointRecord ==
    [ exists |-> TRUE,
      model_state_dict |-> model_w,
      D_state_dict |-> D_w,
      optimizer_state_dict |-> opt_n,
      D_optimizer_state_dict |-> Dopt_n,
      scheduler_state_dict |-> sched_n,
      D_scheduler_state_dict |-> Dsched_n,
      stats |-> stats ]

\* What each component held at the moment of a checkpoint write.
ComponentsNow ==
    [ written |-> TRUE, model |-> model_w, D |-> D_w, optimizer |-> opt_n,
      D_optimizer |-> Dopt_n, scheduler |-> sched_n, D_scheduler |-> Dsched_n,
      stats |-> stats ]

NothingWritten == [written |-> FALSE]

\* Queue.put blocks while the queue holds maxsize items; maxsize <= 0 is unbounded.
QueueFull(len, maxsize) == maxsize > 0 /\ len >= maxsize

\* BatchingQueue iteration: a batch is ready once batch_size unrolls are queued.
BatchReady == learner_queue >= batch_size

\* ---------------------------------------------------------------- Init

Init ==
    /\ main_pc = "load"
    /\ join_idx = 0
    /\ disable_checkpoint = TRUE
    /\ num_actors = NumActors
    /\ batch_size = BatchSize
    /\ max_learner_queue_size = None
    /\ env_shapes = {"frame"}
    /\ interrupted = FALSE
    /\ disk = NoFile
    /\ last_ckpt = "none"
    /\ runs = 1
    /\ model_w = 0 /\ opt_n = 0 /\ sched_n = 0
    /\ D_w = 0 /\ Dopt_n = 0 /\ Dsched_n = 0
    /\ actor_w = [first |-> 0, rest |-> 0]
    /\ D_eval = [first |-> 0, rest |-> 0]
    /\ stats = EmptyStats
    /\ learn_lock = 0 /\ D_lock = 0 /\ inf_lock = 0
    /\ learner_pc = [i \in Learners |-> "unstarted"]
    /\ learner_batch = [i \in Learners |-> 0]
    /\ learner_rows = [i \in Learners |-> <<>>]
    /\ learner_step = [i \in Learners |-> 0]
    /\ dl_pc = [d \in DLearners |-> "unstarted"]
    /\ dl_pair = [d \in DLearners |-> 0]
    /\ inf_pc = [j \in InfThreads |-> "unstarted"]
    /\ inf_batch = [j \in InfThreads |-> {}]
    /\ inf_need = [j \in InfThreads |-> 0]
    /\ inf_done = [j \in InfThreads |-> {}]
    /\ inf_fresh = [j \in InfThreads |-> {}]
    /\ learner_queue = 0
    /\ queue_shapes = <<>>
    /\ queue_closed = FALSE
    /\ next_batch = 1
    /\ pending = {}
    /\ batcher_closed = FALSE
    /\ d_queue = <<>>
    /\ image_queue = 0
    /\ pool_pc = "unstarted"
    /\ actor_pc = [a \in Actors |-> "unstarted"]
    /\ actor_steps = [a \in Actors |-> 0]
    /\ supply = MaxUnrolls
    /\ loader_pc = "unstarted"
    /\ atWrite = NothingWritten
    /\ step0 = 0
    /\ n_completed = 0
    /\ forwarded = {}
    /\ applied = {}
    /\ n_put = 0
    /\ delivered = <<>>
    /\ n_consumed = 0
    /\ MathIdle

\* ---------------------------------------------------------------- train()

\* Checkpoint that ignores flags.disable_checkpoint.
CheckpointAlways(kind) ==
    /\ disk' = CheckpointRecord
    /\ atWrite' = ComponentsNow
    /\ last_ckpt' = kind

\* checkpoint(): nothing when disabled, else one record of every component.
Checkpoint(kind) ==
    IF disable_checkpoint
    THEN UNCHANGED <<disk, atWrite, last_ckpt,
                   countVars, mathVars>>
    ELSE /\ disk' = CheckpointRecord
         /\ atWrite' = ComponentsNow
         /\ last_ckpt' = kind

\* Load state from a checkpoint, if possible.  The policy schedule is loaded
\* from the key "D_scheduler_state_dict" and the discriminator schedule from
\* "scheduler_state_dict".
MainLoad ==
    /\ main_pc = "load"
    /\ IF disk.exists
       THEN /\ model_w' = disk.model_state_dict
            /\ D_w' = disk.D_state_dict
            /\ opt_n' = disk.optimizer_state_dict
            /\ Dopt_n' = disk.D_optimizer_state_dict
            /\ sched_n' = disk.D_scheduler_state_dict
            /\ Dsched_n' = disk.scheduler_state_dict
            /\ stats' = disk.stats
       ELSE UNCHANGED <<model_w, D_w, opt_n, Dopt_n, sched_n, Dsched_n, stats>>
    /\ step0' = StatsGetStep(stats')
    /\ main_pc' = "init_copies"
    /\ UNCHANGED <<join_idx, flagVars, interrupted, disk, last_ckpt, runs,
                   actor_w, D_eval, lockVars, learnerVars, dlVars, infVars, queueVars,
                   actorVars, atWrite, n_completed, forwarded, applied,
                   countVars, mathVars>>

\* Initialize actor model like learner model, and D_eval like D.
MainInitCopies ==
    /\ main_pc = "init_copies"
    /\ actor_w' = [first |-> model_w, rest |-> model_w]
    /\ D_eval' = [first |-> D_w, rest |-> D_w]
    /\ main_pc' = "start"
    /\ UNCHANGED <<join_idx, flagVars, interrupted, disk, last_ckpt, runs,
                   model_w, opt_n, sched_n, D_w, Dopt_n, Dsched_n, stats, lockVars,
                   learnerVars, dlVars, infVars, queueVars, actorVars, histVars, mathVars>>

\* actorpool_thread.start(); for t in threads + daemons: t.start()
MainStart ==
    /\ main_pc = "start"
    /\ pool_pc' = "running"
    /\ actor_pc' = [a \in Actors |-> "submit"]
    /\ learner_pc' = [i \in Learners |-> "next"]
    /\ inf_pc' = [j \in InfThreads |-> "next"]
    /\ dl_pc' = [d \in DLearners |-> "get"]
    /\ loader_pc' = "put"
    /\ main_pc' = "loop"
    /\ UNCHANGED <<join_idx, flagVars, interrupted, disk, last_ckpt, runs,
                   modelVars, stats, lockVars, learner_batch, learner_rows, learner_step, dl_pair,
                   inf_batch, inf_need, inf_done, inf_fresh, queueVars, actor_steps, supply,
                   histVars, mathVars>>

\* start_step = stats.get("step", 0); if start_step >= flags.total_steps: break
\* (below the budget the iteration sleeps, logs and comes back here)
MainCheck ==
    /\ main_pc = "loop"
    /\ StatsGetStep(stats) >= TotalSteps
    /\ main_pc' = "finished"
    /\ UNCHANGED <<join_idx, flagVars, interrupted, disk, last_ckpt, runs,
                   modelVars, stats, lockVars, learnerVars, dlVars, infVars, queueVars,
                   actorVars, histVars, mathVars>>

\* time.sleep(5), more than ten minutes since the last checkpoint: checkpoint()
MainPeriodicCheckpoint ==
    /\ main_pc = "loop"
    /\ Checkpoint("periodic")
    /\ UNCHANGED <<main_pc, join_idx, flagVars, interrupted, runs,
                   modelVars, stats, lockVars, learnerVars, dlVars, infVars, queueVars,
                   actorVars, step0, n_completed, forwarded, applied,
                   countVars, mathVars>>

\* except KeyboardInterrupt: pass
MainInterrupt ==
    /\ main_pc = "loop"
    /\ interrupted' = TRUE
    /\ main_pc' = "close_batcher"
    /\ UNCHANGED <<join_idx, flagVars, disk, last_ckpt, runs,
                   modelVars, stats, lockVars, learnerVars, dlVars, infVars, queueVars,
                   actorVars, histVars, mathVars>>

\* else: logging.info(..., stats["step"]); checkpoint().  stats["step"] raises
\* KeyError when the mapping has no step entry.
MainFinish ==
    /\ main_pc = "finished"
    /\ IF "step" \in DOMAIN stats
       THEN /\ Checkpoint("final")
            /\ main_pc' = "close_batcher"
       ELSE /\ UNCHANGED <<disk, atWrite, last_ckpt>>
            /\ main_pc' = "crashed"
    /\ UNCHANGED <<join_idx, flagVars, interrupted, runs,
                   modelVars, stats, lockVars, learnerVars, dlVars, infVars, queueVars,
                   actorVars, step0, n_completed, forwarded, applied,
                   countVars, mathVars>>

\* inference_batcher.close()
MainCloseBatcher ==
    /\ main_pc = "close_batcher"
    /\ batcher_closed' = TRUE
    /\ main_pc' = "close_queue"
    /\ UNCHANGED <<join_idx, flagVars, interrupted, disk, last_ckpt, runs,
                   modelVars, stats, lockVars, learnerVars, dlVars, infVars,
                   learner_queue, queue_shapes, queue_closed, next_batch, pending, d_queue, image_queue,
                   actorVars, histVars, mathVars>>

\* learner_queue.close()
MainCloseQueue ==
    /\ main_pc = "close_queue"
    /\ queue_closed' = TRUE
    /\ main_pc' = "join_actor"
    /\ UNCHANGED <<join_idx, flagVars, interrupted, disk, last_ckpt, runs,
                   modelVars, stats, lockVars, learnerVars, dlVars, infVars,
                   learner_queue, queue_shapes, batcher_closed, next_batch, pending, d_queue, image_queue,
                   actorVars, histVars, mathVars>>

\* actorpool_thread.join(): returns once the thread has ended, normally or not.
MainJoinActor ==
    /\ main_pc = "join_actor"
    /\ pool_pc \in {"returned", "raised"}
    /\ main_pc' = "join_threads"
    /\ join_idx' = 1
    /\ UNCHANGED <<flagVars, interrupted, disk, last_ckpt, runs,
                   modelVars, stats, lockVars, learnerVars, dlVars, infVars, queueVars,
                   actorVars, histVars, mathVars>>

\* threads = learner_threads + inference_threads
ThreadEnded(k) ==
    IF k <= NumLearnerThreads
    THEN learner_pc[k] \in {"returned", "failed"}
    ELSE inf_pc[k - NumLearnerThreads] = "returned"

\* MainJoinThread that does not wait for the thread to end.
MainJoinThreadNoWait ==
    /\ main_pc = "join_threads"
    /\ join_idx' = join_idx + 1
    /\ main_pc' = IF join_idx = NumLearnerThreads + NumInferenceThreads
                  THEN "done" ELSE "join_threads"
    /\ UNCHANGED <<flagVars, interrupted, disk, last_ckpt, runs,
                   modelVars, stats, lockVars, learnerVars, dlVars, infVars, queueVars,
                   actorVars, histVars, mathVars>>

\* for t in threads: t.join()
MainJoinThread ==
    /\ main_pc = "join_threads"
    /\ ThreadEnded(join_idx)
    /\ join_idx' = join_idx + 1
    /\ main_pc' = IF join_idx = NumLearnerThreads + NumInferenceThreads
                  THEN "done" ELSE "join_threads"
    /\ UNCHANGED <<flagVars, interrupted, disk, last_ckpt, runs,
                   modelVars, stats, lockVars, learnerVars, dlVars, infVars, queueVars,
                   actorVars, histVars, mathVars>>

\* The process ends after train() returns (the daemon threads are abandoned)
\* and the job is started again: every object is constructed anew, the
\* checkpoint file stays.
Restart ==
    /\ main_pc = "done"
    /\ runs < MaxRuns
    /\ runs' = runs + 1
    /\ main_pc' = "load"
    /\ join_idx' = 0
    /\ interrupted' = FALSE
    /\ last_ckpt' = "none"
    /\ model_w' = 0 /\ opt_n' = 0 /\ sched_n' = 0
    /\ D_w' = 0 /\ Dopt_n' = 0 /\ Dsched_n' = 0
    /\ actor_w' = [first |-> 0, rest |-> 0]
    /\ D_eval' = [first |-> 0, rest |-> 0]
    /\ stats' = EmptyStats
    /\ learn_lock' = 0 /\ D_lock' = 0 /\ inf_lock' = 0
    /\ learner_pc' = [i \in Learners |-> "unstarted"]
    /\ learner_batch' = [i \in Learners |-> 0]
    /\ learner_rows' = [i \in Learners |-> <<>>]
    /\ learner_step' = [i \in Learners |-> 0]
    /\ dl_pc' = [d \in DLearners |-> "unstarted"]
    /\ dl_pair' = [d \in DLearners |-> 0]
    /\ inf_pc' = [j \in InfThreads |-> "unstarted"]
    /\ inf_batch' = [j \in InfThreads |-> {}]
    /\ inf_need' = [j \in InfThreads |-> 0]
    /\ inf_done' = [j \in InfThreads |-> {}]
    /\ inf_fresh' = [j \in InfThreads |-> {}]
    /\ learner_queue' = 0
    /\ queue_shapes' = <<>>
    /\ queue_closed' = FALSE
    /\ pending' = {}
    /\ batcher_closed' = FALSE
    /\ d_queue' = <<>>
    /\ image_queue' = 0
    /\ pool_pc' = "unstarted"
    /\ actor_pc' = [a \in Actors |-> "unstarted"]
    /\ actor_steps' = [a \in Actors |-> 0]
    /\ loader_pc' = "unstarted"
    /\ step0' = 0
    /\ n_completed' = 0
    /\ n_put' = 0
    /\ delivered' = <<>>
    /\ n_consumed' = 0
    /\ supply' = ResumeUnrolls
    /\ UNCHANGED <<flagVars, disk, next_batch, atWrite, forwarded, applied, mathVars>>

\* ---------------------------------------------------------------- learn()

\* The unrolls leave the learner queue in the order they were put: the oldest
\* one in the queue is the QueueHead-th unroll put, and the next batch stacks
\* the batch_size oldest ones.
QueueHead == n_put - learner_queue + 1
BatchUnrolls == [k \in 1..batch_size |-> QueueHead + k - 1]

\* check_inputs: the unrolls stacked into one batch have the same shapes.
SameShapes(rows) == \A m, n \in 1..Len(rows) : rows[m] = rows[n]

\* LearnNext on a queue that yields a batch without taking its unrolls out.
LearnNextKeepsUnrolls(i) ==
    /\ learner_pc[i] = "next"
    /\ IF BatchReady
       THEN /\ UNCHANGED <<learner_queue, queue_shapes>>
            /\ IF SameShapes(SubSeq(queue_shapes, 1, batch_size))
               THEN /\ learner_batch' = [learner_batch EXCEPT ![i] = next_batch]
                    /\ learner_rows' = [learner_rows EXCEPT ![i] =
                                           SubSeq(queue_shapes, 1, batch_size)]
                    /\ next_batch' = next_batch + 1
                    /\ delivered' = delivered \o BatchUnrolls
                    /\ learner_pc' = [learner_pc EXCEPT ![i] = "put"]
               ELSE /\ learner_pc' = [learner_pc EXCEPT ![i] = "failed"]
                    /\ UNCHANGED <<learner_batch, learner_rows, next_batch, delivered>>
       ELSE /\ queue_closed
            /\ learner_pc' = [learner_pc EXCEPT ![i] = "returned"]
            /\ UNCHANGED <<learner_queue, queue_shapes, learner_batch, learner_rows,
                           next_batch, delivered>>
    /\ UNCHANGED <<mainVars, modelVars, stats, lockVars, learner_step, dlVars, infVars,
                   queue_closed, pending, batcher_closed, d_queue, image_queue,
                   actorVars, atWrite, step0, n_completed, forwarded, applied, n_put, n_consumed, mathVars>>

\* LearnNext on a queue with check_inputs off: the batch is yielded whatever the
\* shapes of its unrolls.
LearnNextUnchecked(i) ==
    /\ learner_pc[i] = "next"
    /\ IF BatchReady
       THEN /\ learner_queue' = learner_queue - batch_size
            /\ queue_shapes' = SubSeq(queue_shapes, batch_size + 1, Len(queue_shapes))
            /\ learner_batch' = [learner_batch EXCEPT ![i] = next_batch]
            /\ learner_rows' = [learner_rows EXCEPT ![i] =
                                   SubSeq(queue_shapes, 1, batch_size)]
            /\ next_batch' = next_batch + 1
            /\ delivered' = delivered \o BatchUnrolls
            /\ learner_pc' = [learner_pc EXCEPT ![i] = "put"]
       ELSE /\ queue_closed
            /\ learner_pc' = [learner_pc EXCEPT ![i] = "returned"]
            /\ UNCHANGED <<learner_queue, queue_shapes, learner_batch, learner_rows,
                           next_batch, delivered>>
    /\ UNCHANGED <<mainVars, modelVars, stats, lockVars, learner_step, dlVars, infVars,
                   queue_closed, pending, batcher_closed, d_queue, image_queue,
                   actorVars, atWrite, step0, n_completed, forwarded, applied, n_put, n_consumed, mathVars>>

\* LearnNext with the closed condition raised out of the loop instead of ending
\* the iteration: the thread ends on an exception.
LearnNextCloseFails(i) ==
    /\ learner_pc[i] = "next"
    /\ IF BatchReady
       THEN /\ learner_queue' = learner_queue - batch_size
            /\ queue_shapes' = SubSeq(queue_shapes, batch_size + 1, Len(queue_shapes))
            /\ IF SameShapes(SubSeq(queue_shapes, 1, batch_size))
               THEN /\ learner_batch' = [learner_batch EXCEPT ![i] = next_batch]
                    /\ learner_rows' = [learner_rows EXCEPT ![i] =
                                           SubSeq(queue_shapes, 1, batch_size)]
                    /\ next_batch' = next_batch + 1
                    /\ delivered' = delivered \o BatchUnrolls
                    /\ learner_pc' = [learner_pc EXCEPT ![i] = "put"]
               ELSE /\ learner_pc' = [learner_pc EXCEPT ![i] = "failed"]
                    /\ UNCHANGED <<learner_batch, learner_rows, next_batch, delivered>>
       ELSE /\ queue_closed
            /\ learner_pc' = [learner_pc EXCEPT ![i] = "failed"]
            /\ UNCHANGED <<learner_queue, queue_shapes, learner_batch, learner_rows,
                           next_batch, delivered>>
    /\ UNCHANGED <<mainVars, modelVars, stats, lockVars, learner_step, dlVars, infVars,
                   queue_closed, pending, batcher_closed, d_queue, image_queue,
                   actorVars, atWrite, step0, n_completed, forwarded, applied, n_put, n_consumed, mathVars>>

\* for tensors in learner_queue: the next batch of batch_size unrolls, or the end
\* of the iteration once the queue is closed and holds no complete batch.  A
\* batch of unrolls whose shapes differ is not yielded: the iteration fails with
\* the shape-mismatch condition, which ends the thread.
LearnNext(i) ==
    /\ learner_pc[i] = "next"
    /\ IF BatchReady
       THEN /\ learner_queue' = learner_queue - batch_size
            /\ queue_shapes' = SubSeq(queue_shapes, batch_size + 1, Len(queue_shapes))
            /\ IF SameShapes(SubSeq(queue_shapes, 1, batch_size))
               THEN /\ learner_batch' = [learner_batch EXCEPT ![i] = next_batch]
                    /\ learner_rows' = [learner_rows EXCEPT ![i] =
                                           SubSeq(queue_shapes, 1, batch_size)]
                    /\ next_batch' = next_batch + 1
                    /\ delivered' = delivered \o BatchUnrolls
                    /\ learner_pc' = [learner_pc EXCEPT ![i] = "put"]
               ELSE /\ learner_pc' = [learner_pc EXCEPT ![i] = "failed"]
                    /\ UNCHANGED <<learner_batch, learner_rows, next_batch, delivered>>
       ELSE /\ queue_closed
            /\ learner_pc' = [learner_pc EXCEPT ![i] = "returned"]
            /\ UNCHANGED <<learner_queue, queue_shapes, learner_batch, learner_rows,
                           next_batch, delivered>>
    /\ UNCHANGED <<mainVars, modelVars, stats, lockVars, learner_step, dlVars, infVars,
                   queue_closed, pending, batcher_closed, d_queue, image_queue,
                   actorVars, atWrite, step0, n_completed, forwarded, applied, n_put, n_consumed, mathVars>>

\* LearnPut with the put left out: the learner goes on to the lock without
\* forwarding the pair.
LearnPutNothing(i) ==
    /\ learner_pc[i] = "put"
    /\ learner_pc' = [learner_pc EXCEPT ![i] = "acquire"]
    /\ UNCHANGED <<mainVars, modelVars, stats, lockVars, learner_batch, learner_rows, learner_step,
                   dlVars, infVars, queueVars, actorVars, histVars, mathVars>>

\* d_queue.put((frame, image.squeeze(0))), before the lock is taken
LearnPut(i) ==
    /\ learner_pc[i] = "put"
    /\ ~QueueFull(Len(d_queue), DQueueMaxSize)
    /\ d_queue' = Append(d_queue, learner_batch[i])
    /\ forwarded' = forwarded \cup {learner_batch[i]}
    /\ learner_pc' = [learner_pc EXCEPT ![i] = "acquire"]
    /\ UNCHANGED <<mainVars, modelVars, stats, lockVars, learner_batch, learner_rows, learner_step,
                   dlVars, infVars, learner_queue, queue_shapes, queue_closed, next_batch, pending,
                   batcher_closed, image_queue, actorVars, atWrite, step0, n_completed,
                   applied,
                   countVars, mathVars>>

\* LearnAcquire with a lock that does not exclude: the thread goes on although
\* another one holds it.
LearnAcquireNoExclusion(i) ==
    /\ learner_pc[i] = "acquire"
    /\ learn_lock' = i
    /\ learner_pc' = [learner_pc EXCEPT ![i] = "update"]
    /\ UNCHANGED <<mainVars, modelVars, stats, D_lock, inf_lock, learner_batch, learner_rows,
                   learner_step, dlVars, infVars, queueVars, actorVars, histVars, mathVars>>

\* lock.acquire()  # Only one thread learning at a time.
LearnAcquire(i) ==
    /\ learner_pc[i] = "acquire"
    /\ learn_lock = 0
    /\ learn_lock' = i
    /\ learner_pc' = [learner_pc EXCEPT ![i] = "update"]
    /\ UNCHANGED <<mainVars, modelVars, stats, D_lock, inf_lock, learner_batch, learner_rows,
                   learner_step, dlVars, infVars, queueVars, actorVars, histVars, mathVars>>

\* optimizer.zero_grad() ... total_loss.backward(); optimizer.step(); scheduler.step()
LearnOptStep(i) ==
    /\ learner_pc[i] = "update"
    /\ model_w' = model_w + 1
    /\ opt_n' = opt_n + 1
    /\ sched_n' = sched_n + 1
    /\ learner_pc' = [learner_pc EXCEPT ![i] = "copy_first"]
    /\ UNCHANGED <<mainVars, D_w, Dopt_n, Dsched_n, actor_w, D_eval, stats, lockVars,
                   learner_batch, learner_rows, learner_step, dlVars, infVars, queueVars, actorVars,
                   histVars, mathVars>>

\* LearnCopyFirst without the copy: the first parameters of actor_model stay as
\* they were.
LearnCopyFirstNothing(i) ==
    /\ learner_pc[i] = "copy_first"
    /\ learner_pc' = [learner_pc EXCEPT ![i] = "copy_rest"]
    /\ UNCHANGED <<mainVars, modelVars, stats, lockVars, learner_batch, learner_rows,
                   learner_step, dlVars, infVars, queueVars, actorVars, histVars, mathVars>>

\* actor_model.load_state_dict(model.state_dict()): the first parameters copied
LearnCopyFirst(i) ==
    /\ learner_pc[i] = "copy_first"
    /\ actor_w' = [actor_w EXCEPT !.first = model_w]
    /\ learner_pc' = [learner_pc EXCEPT ![i] = "copy_rest"]
    /\ UNCHANGED <<mainVars, model_w, opt_n, sched_n, D_w, Dopt_n, Dsched_n, D_eval,
                   stats, lockVars, learner_batch, learner_rows, learner_step, dlVars, infVars,
                   queueVars, actorVars, histVars, mathVars>>

\* LearnCopyRest with lock.release() moved up from the end of the loop body to
\* right after load_state_dict, so that the statistics are updated outside the lock.
LearnCopyRestEarlyRelease(i) ==
    /\ learner_pc[i] = "copy_rest"
    /\ actor_w' = [actor_w EXCEPT !.rest = model_w]
    /\ applied' = applied \cup {learner_batch[i]}
    /\ learn_lock' = 0
    /\ learner_pc' = [learner_pc EXCEPT ![i] = "stats_read"]
    /\ UNCHANGED <<mainVars, model_w, opt_n, sched_n, D_w, Dopt_n, Dsched_n, D_eval,
                   stats, D_lock, inf_lock, learner_batch, learner_rows, learner_step, dlVars, infVars,
                   queueVars, actorVars, atWrite, step0, n_completed, forwarded,
                   countVars, mathVars>>

\* actor_model.load_state_dict(model.state_dict()): the remaining parameters copied
LearnCopyRest(i) ==
    /\ learner_pc[i] = "copy_rest"
    /\ actor_w' = [actor_w EXCEPT !.rest = model_w]
    /\ applied' = applied \cup {learner_batch[i]}
    /\ learner_pc' = [learner_pc EXCEPT ![i] = "stats_read"]
    /\ UNCHANGED <<mainVars, model_w, opt_n, sched_n, D_w, Dopt_n, Dsched_n, D_eval,
                   stats, lockVars, learner_batch, learner_rows, learner_step, dlVars, infVars,
                   queueVars, actorVars, atWrite, step0, n_completed, forwarded,
                   countVars, mathVars>>

\* stats.get("step", 0), the right-hand side of the step update
LearnStatsRead(i) ==
    /\ learner_pc[i] = "stats_read"
    /\ learner_step' = [learner_step EXCEPT ![i] = StatsGetStep(stats)]
    /\ learner_pc' = [learner_pc EXCEPT ![i] = "stats_write"]
    /\ UNCHANGED <<mainVars, modelVars, stats, lockVars, learner_batch, learner_rows, dlVars, infVars,
                   queueVars, actorVars, histVars, mathVars>>

\* LearnStatsWrite without the lock.release() that ends the loop body.
LearnStatsWriteNoRelease(i) ==
    /\ learner_pc[i] = "stats_write"
    /\ stats' = StatsSet(StatsSet(stats, "step", learner_step[i] + StepsPerUpdate),
                         "total_loss", model_w)
    /\ n_completed' = n_completed + 1
    /\ learner_batch' = [learner_batch EXCEPT ![i] = 0]
    /\ learner_rows' = [learner_rows EXCEPT ![i] = <<>>]
    /\ learner_step' = [learner_step EXCEPT ![i] = 0]
    /\ learner_pc' = [learner_pc EXCEPT ![i] = "next"]
    /\ UNCHANGED <<mainVars, modelVars, lockVars, dlVars, infVars,
                   queueVars, actorVars, atWrite, step0, forwarded, applied,
                   countVars, mathVars>>

\* stats["step"] = ... + flags.unroll_length * flags.batch_size; stats["total_loss"]
\* = ...; plogger.log(stats); lock.release()
LearnStatsWrite(i) ==
    /\ learner_pc[i] = "stats_write"
    /\ stats' = StatsSet(StatsSet(stats, "step", learner_step[i] + StepsPerUpdate),
                         "total_loss", model_w)
    /\ learn_lock' = 0
    /\ n_completed' = n_completed + 1
    /\ learner_batch' = [learner_batch EXCEPT ![i] = 0]
    /\ learner_rows' = [learner_rows EXCEPT ![i] = <<>>]
    /\ learner_step' = [learner_step EXCEPT ![i] = 0]
    /\ learner_pc' = [learner_pc EXCEPT ![i] = "next"]
    /\ UNCHANGED <<mainVars, modelVars, D_lock, inf_lock, dlVars, infVars,
                   queueVars, actorVars, atWrite, step0, forwarded, applied,
                   countVars, mathVars>>

\* ---------------------------------------------------------------- learn_D()

\* DGet that reads the oldest pair and leaves it in the queue.
DGetKeepsPair(d) ==
    /\ dl_pc[d] = "get"
    /\ Len(d_queue) > 0
    /\ dl_pair' = [dl_pair EXCEPT ![d] = Head(d_queue)]
    /\ n_consumed' = n_consumed + 1
    /\ dl_pc' = [dl_pc EXCEPT ![d] = "acquire"]
    /\ UNCHANGED <<mainVars, modelVars, stats, lockVars, learnerVars, infVars,
                   queueVars, actorVars, atWrite, step0, n_completed, forwarded, applied,
                   n_put, delivered, mathVars>>

\* fake, real = queue.get()
DGet(d) ==
    /\ dl_pc[d] = "get"
    /\ Len(d_queue) > 0
    /\ dl_pair' = [dl_pair EXCEPT ![d] = Head(d_queue)]
    /\ d_queue' = Tail(d_queue)
    /\ n_consumed' = n_consumed + 1
    /\ dl_pc' = [dl_pc EXCEPT ![d] = "acquire"]
    /\ UNCHANGED <<mainVars, modelVars, stats, lockVars, learnerVars, infVars,
                   learner_queue, queue_shapes, queue_closed, next_batch, pending, batcher_closed,
                   image_queue, actorVars, atWrite, step0, n_completed, forwarded, applied, n_put, delivered, mathVars>>

\* DAcquire with a lock that does not exclude: the thread goes on although
\* another one holds it.
DAcquireNoExclusion(d) ==
    /\ dl_pc[d] = "acquire"
    /\ D_lock' = d
    /\ dl_pc' = [dl_pc EXCEPT ![d] = "update"]
    /\ UNCHANGED <<mainVars, modelVars, stats, learn_lock, inf_lock, learnerVars,
                   dl_pair, infVars, queueVars, actorVars, histVars, mathVars>>

\* lock.acquire(), the lock of learn_D
DAcquire(d) ==
    /\ dl_pc[d] = "acquire"
    /\ D_lock = 0
    /\ D_lock' = d
    /\ dl_pc' = [dl_pc EXCEPT ![d] = "update"]
    /\ UNCHANGED <<mainVars, modelVars, stats, learn_lock, inf_lock, learnerVars,
                   dl_pair, infVars, queueVars, actorVars, histVars, mathVars>>

\* optimizer.zero_grad() ... optimizer.step(); scheduler.step()
DOptStep(d) ==
    /\ dl_pc[d] = "update"
    /\ D_w' = D_w + 1
    /\ Dopt_n' = Dopt_n + 1
    /\ Dsched_n' = Dsched_n + 1
    /\ dl_pc' = [dl_pc EXCEPT ![d] = "publish"]
    /\ UNCHANGED <<mainVars, model_w, opt_n, sched_n, actor_w, D_eval, stats, lockVars,
                   learnerVars, dl_pair, infVars, queueVars, actorVars, histVars, mathVars>>

\* D_eval.load_state_dict(D.state_dict()): the first parameters copied
DPublishFirst(d) ==
    /\ dl_pc[d] = "publish"
    /\ D_eval' = [D_eval EXCEPT !.first = D_w]
    /\ dl_pc' = [dl_pc EXCEPT ![d] = "publish_rest"]
    /\ UNCHANGED <<mainVars, model_w, opt_n, sched_n, D_w, Dopt_n, Dsched_n, actor_w,
                   stats, lockVars, learnerVars, dl_pair, infVars, queueVars, actorVars,
                   histVars, mathVars>>

\* D_eval.load_state_dict(D.state_dict()): the remaining parameters copied
DPublishRest(d) ==
    /\ dl_pc[d] = "publish_rest"
    /\ D_eval' = [D_eval EXCEPT !.rest = D_w]
    /\ dl_pc' = [dl_pc EXCEPT ![d] = "stats"]
    /\ UNCHANGED <<mainVars, model_w, opt_n, sched_n, D_w, Dopt_n, Dsched_n, actor_w,
                   stats, lockVars, learnerVars, dl_pair, infVars, queueVars, actorVars,
                   histVars, mathVars>>

\* DStats that goes back to queue.get() without releasing the lock.
DStatsNoRelease(d) ==
    /\ dl_pc[d] = "stats"
    /\ stats' = StatsSet(stats, "D_loss", D_w)
    /\ dl_pair' = [dl_pair EXCEPT ![d] = 0]
    /\ dl_pc' = [dl_pc EXCEPT ![d] = "get"]
    /\ UNCHANGED <<mainVars, modelVars, lockVars, learnerVars, infVars,
                   queueVars, actorVars, histVars, mathVars>>

\* stats["D_loss"] = loss.item() ... stats["D_G_z1"] = D_G_z1.item(); lock.release()
DStats(d) ==
    /\ dl_pc[d] = "stats"
    /\ stats' = StatsSet(stats, "D_loss", D_w)
    /\ D_lock' = 0
    /\ dl_pair' = [dl_pair EXCEPT ![d] = 0]
    /\ dl_pc' = [dl_pc EXCEPT ![d] = "get"]
    /\ UNCHANGED <<mainVars, modelVars, learn_lock, inf_lock, learnerVars, infVars,
                   queueVars, actorVars, histVars, mathVars>>

\* ---------------------------------------------------------------- inference()

\* for batch in inference_batcher: the pending requests as one batch, or the end
\* of the iteration once the batcher is closed.  Any of the rows may have its
\* done flag set; with done.any() the loop fetches done.shape[1] images, one
\* for every row of the batch.
InfNext(j) ==
    /\ inf_pc[j] = "next"
    /\ IF pending # {} /\ ~batcher_closed
       THEN \E done_rows \in SUBSET pending :
               /\ inf_batch' = [inf_batch EXCEPT ![j] = pending]
               /\ pending' = {}
               /\ inf_done' = [inf_done EXCEPT ![j] = done_rows]
               /\ inf_need' = [inf_need EXCEPT ![j] =
                                  IF done_rows # {} THEN Cardinality(pending) ELSE 0]
               /\ inf_pc' = [inf_pc EXCEPT ![j] =
                                IF done_rows # {} THEN "images" ELSE "acquire"]
       ELSE /\ batcher_closed
            /\ inf_pc' = [inf_pc EXCEPT ![j] = "returned"]
            /\ UNCHANGED <<inf_batch, inf_need, inf_done, pending>>
    /\ UNCHANGED <<mainVars, modelVars, stats, lockVars, learnerVars, dlVars, inf_fresh,
                   learner_queue, queue_shapes, queue_closed, next_batch, batcher_closed, d_queue,
                   image_queue, actorVars, histVars, mathVars>>

\* The row the next fetched image goes to: the images are stacked in the order
\* they were fetched.
NextRow(j) ==
    CHOOSE a \in inf_batch[j] \ inf_fresh[j] :
        \A b \in inf_batch[j] \ inf_fresh[j] : a <= b

\* image_list.append(image_queue.get())
InfGetImage(j) ==
    /\ inf_pc[j] = "images"
    /\ image_queue > 0
    /\ image_queue' = image_queue - 1
    /\ inf_need' = [inf_need EXCEPT ![j] = inf_need[j] - 1]
    /\ inf_fresh' = [inf_fresh EXCEPT ![j] = inf_fresh[j] \cup {NextRow(j)}]
    /\ inf_pc' = [inf_pc EXCEPT ![j] = IF inf_need[j] = 1 THEN "acquire" ELSE "images"]
    /\ UNCHANGED <<mainVars, modelVars, stats, lockVars, learnerVars, dlVars, inf_batch,
                   inf_done, learner_queue, queue_shapes, queue_closed, next_batch, pending,
                   batcher_closed, d_queue, actorVars, histVars, mathVars>>

\* InfAcquire on the lock of learn instead of a lock of its own: the inference
\* thread waits while a learner is in its update.
InfAcquireLearnerLock(j) ==
    /\ inf_pc[j] = "acquire"
    /\ learn_lock = 0
    /\ inf_lock = 0
    /\ inf_lock' = j
    /\ inf_pc' = [inf_pc EXCEPT ![j] = "forward"]
    /\ UNCHANGED <<mainVars, modelVars, stats, learn_lock, D_lock, learnerVars, dlVars,
                   inf_batch, inf_need, inf_done, inf_fresh, queueVars, actorVars, histVars, mathVars>>

\* with lock: the lock of inference
InfAcquire(j) ==
    /\ inf_pc[j] = "acquire"
    /\ inf_lock = 0
    /\ inf_lock' = j
    /\ inf_pc' = [inf_pc EXCEPT ![j] = "forward"]
    /\ UNCHANGED <<mainVars, modelVars, stats, learn_lock, D_lock, learnerVars, dlVars,
                   inf_batch, inf_need, inf_done, inf_fresh, queueVars, actorVars, histVars, mathVars>>

\* The actor that receives its outputs steps its environment: after
\* unroll_length steps the unroll is complete.
ActorAfterOutput(a) ==
    IF actor_steps[a] + 1 >= UnrollLength THEN "put" ELSE "submit"

\* InfForward without batch.set_outputs(...): the requests of the batch get no
\* outputs.
InfForwardNoOutputs(j) ==
    /\ inf_pc[j] = "forward"
    /\ inf_lock' = 0
    /\ inf_batch' = [inf_batch EXCEPT ![j] = {}]
    /\ inf_done' = [inf_done EXCEPT ![j] = {}]
    /\ inf_fresh' = [inf_fresh EXCEPT ![j] = {}]
    /\ inf_pc' = [inf_pc EXCEPT ![j] = "next"]
    /\ UNCHANGED <<mainVars, modelVars, stats, learn_lock, D_lock, learnerVars, dlVars,
                   inf_need, queueVars, actorVars, histVars, mathVars>>

\* InfForward with the outputs handed to every caller that is waiting, the ones
\* whose request is not in the batch included.
InfForwardToEveryCaller(j) ==
    /\ inf_pc[j] = "forward"
    /\ inf_lock' = 0
    /\ actor_pc' = [a \in Actors |->
                      IF actor_pc[a] = "wait" THEN ActorAfterOutput(a) ELSE actor_pc[a]]
    /\ actor_steps' = [a \in Actors |->
                         IF actor_pc[a] = "wait" THEN actor_steps[a] + 1 ELSE actor_steps[a]]
    /\ inf_batch' = [inf_batch EXCEPT ![j] = {}]
    /\ inf_done' = [inf_done EXCEPT ![j] = {}]
    /\ inf_fresh' = [inf_fresh EXCEPT ![j] = {}]
    /\ inf_pc' = [inf_pc EXCEPT ![j] = "next"]
    /\ UNCHANGED <<mainVars, modelVars, stats, learn_lock, D_lock, learnerVars, dlVars,
                   inf_need, queueVars, pool_pc, supply, loader_pc, histVars, mathVars>>

\* outputs = model(...), the end of the with block, batch.set_outputs(...): every
\* request of the batch gets its outputs
InfForward(j) ==
    /\ inf_pc[j] = "forward"
    /\ inf_lock' = 0
    /\ actor_pc' = [a \in Actors |->
                      IF a \in inf_batch[j] /\ actor_pc[a] = "wait"
                      THEN ActorAfterOutput(a) ELSE actor_pc[a]]
    /\ actor_steps' = [a \in Actors |->
                         IF a \in inf_batch[j] /\ actor_pc[a] = "wait"
                         THEN actor_steps[a] + 1 ELSE actor_steps[a]]
    /\ inf_batch' = [inf_batch EXCEPT ![j] = {}]
    /\ inf_done' = [inf_done EXCEPT ![j] = {}]
    /\ inf_fresh' = [inf_fresh EXCEPT ![j] = {}]
    /\ inf_pc' = [inf_pc EXCEPT ![j] = "next"]
    /\ UNCHANGED <<mainVars, modelVars, stats, learn_lock, D_lock, learnerVars, dlVars,
                   inf_need, queueVars, pool_pc, supply, loader_pc, histVars, mathVars>>

\* ---------------------------------------------------------------- data_loader()

\* LoaderPut on a queue without a bound: the image is added however many are
\* waiting.
LoaderPutUnbounded ==
    /\ loader_pc = "put"
    /\ image_queue' = image_queue + 1
    /\ UNCHANGED <<mainVars, modelVars, stats, lockVars, learnerVars, dlVars, infVars,
                   learner_queue, queue_shapes, queue_closed, next_batch, pending, batcher_closed,
                   d_queue, actorVars, histVars, mathVars>>

\* image_queue.put(image)
LoaderPut ==
    /\ loader_pc = "put"
    /\ ~QueueFull(image_queue, ImageQueueMaxSize)
    /\ image_queue' = image_queue + 1
    /\ UNCHANGED <<mainVars, modelVars, stats, lockVars, learnerVars, dlVars, infVars,
                   learner_queue, queue_shapes, queue_closed, next_batch, pending, batcher_closed,
                   d_queue, actorVars, histVars, mathVars>>

\* ---------------------------------------------------------------- actor pool

\* An actor submits its request to the DynamicBatcher; a closed batcher rejects it.
ActorSubmit(a) ==
    /\ a \in Actors
    /\ pool_pc = "running"
    /\ actor_pc[a] = "submit"
    /\ IF batcher_closed
       THEN /\ actor_pc' = [actor_pc EXCEPT ![a] = "stopped"]
            /\ UNCHANGED <<pending, supply>>
       ELSE /\ actor_steps[a] > 0 \/ supply > 0
            /\ pending' = pending \cup {a}
            /\ supply' = IF actor_steps[a] = 0 THEN supply - 1 ELSE supply
            /\ actor_pc' = [actor_pc EXCEPT ![a] = "wait"]
    /\ UNCHANGED <<mainVars, modelVars, stats, lockVars, learnerVars, dlVars, infVars,
                   learner_queue, queue_shapes, queue_closed, next_batch, batcher_closed, d_queue,
                   image_queue, pool_pc, actor_steps, loader_pc, histVars, mathVars>>

\* close() makes a blocked submit fail with the closed condition.
ActorSubmitClosed(a) ==
    /\ a \in Actors
    /\ pool_pc = "running"
    /\ actor_pc[a] = "wait"
    /\ a \in pending
    /\ batcher_closed
    /\ pending' = pending \ {a}
    /\ actor_pc' = [actor_pc EXCEPT ![a] = "stopped"]
    /\ UNCHANGED <<mainVars, modelVars, stats, lockVars, learnerVars, dlVars, infVars,
                   learner_queue, queue_shapes, queue_closed, next_batch, batcher_closed, d_queue,
                   image_queue, pool_pc, actor_steps, supply, loader_pc, histVars, mathVars>>

\* An actor puts its unroll on the BatchingQueue: put blocks at
\* maximum_queue_size and fails once the queue is closed.
ActorPut(a) ==
    /\ a \in Actors
    /\ pool_pc = "running"
    /\ actor_pc[a] = "put"
    /\ IF queue_closed
       THEN /\ actor_pc' = [actor_pc EXCEPT ![a] = "stopped"]
            /\ UNCHANGED <<learner_queue, queue_shapes, actor_steps, n_put>>
       ELSE /\ learner_queue < MaxLearnerQueueSize
            /\ learner_queue' = learner_queue + 1
            /\ n_put' = n_put + 1
            /\ \E shape \in env_shapes : queue_shapes' = Append(queue_shapes, shape)
            /\ actor_steps' = [actor_steps EXCEPT ![a] = 0]
            /\ actor_pc' = [actor_pc EXCEPT ![a] = "submit"]
    /\ UNCHANGED <<mainVars, modelVars, stats, lockVars, learnerVars, dlVars, infVars,
                   queue_closed, next_batch, pending, batcher_closed, d_queue,
                   image_queue, pool_pc, supply, loader_pc,
                   atWrite, step0, n_completed, forwarded, applied, delivered, n_consumed, mathVars>>

\* actors.run() returns once every actor loop has ended on the closed condition.
ActorPoolReturn ==
    /\ pool_pc = "running"
    /\ \A a \in Actors : actor_pc[a] = "stopped"
    /\ pool_pc' = "returned"
    /\ UNCHANGED <<mainVars, modelVars, stats, lockVars, learnerVars, dlVars, infVars,
                   queueVars, actor_pc, actor_steps, supply, loader_pc, histVars, mathVars>>

\* actors.run() raises another exception: run() logs it and re-raises it, which
\* ends the actorpool thread and nothing else.
ActorPoolRaise ==
    /\ pool_pc = "running"
    /\ pool_pc' = "raised"
    /\ actor_pc' = [a \in Actors |-> "stopped"]
    /\ UNCHANGED <<mainVars, modelVars, stats, lockVars, learnerVars, dlVars, infVars,
                   queueVars, actor_steps, supply, loader_pc, histVars, mathVars>>

\* ---------------------------------------------------------------- the returns of a batch in learn()

\* flags.unroll_length of the longer unrolls
LongUnroll == 2
\* flags.discounting
Discounting == 1
\* The truncation threshold rho-bar of the importance ratio.
RhoBar == 1

Min(a, b) == IF a <= b THEN a ELSE b

\* t[:-1]
Front(t) == SubSeq(t, 1, Len(t) - 1)

\* The tensors of length n over the values of S.
TensorsOf(S, n) == [1..n -> S]

\* The unrolls of unroll_length 1 (two entries) with the learner's outputs on
\* them: the environment's reward and done flag, the actor's action and the
\* weight its policy gave that action, the weight the learner's policy gives it,
\* the learner's baseline, and the score D gives the frame.
ShortUnrolls ==
    [ reward : TensorsOf({0, 1}, UnrollLength + 1),
      done : TensorsOf(BOOLEAN, UnrollLength + 1),
      action : TensorsOf({0, 1}, UnrollLength + 1),
      actor_logits : TensorsOf({1, 2}, UnrollLength + 1),
      learner_logits : TensorsOf({0, 2}, UnrollLength + 1),
      baseline : TensorsOf({0, 1}, UnrollLength + 1),
      p : TensorsOf({0, 1}, UnrollLength + 1) ]

\* Unrolls of unroll_length LongUnroll: every reward, done flag and score, with
\* outputs that differ from entry to entry.
LongUnrolls ==
    [ reward : TensorsOf({0, 1}, LongUnroll + 1),
      done : TensorsOf(BOOLEAN, LongUnroll + 1),
      action : {<<0, 1, 0>>},
      actor_logits : {<<1, 2, 1>>},
      learner_logits : {<<2, 0, 2>>},
      baseline : {<<0, 1, 2>>},
      p : TensorsOf({0, 1, 3}, LongUnroll + 1) ]

\* ShapeReward that, without use_tca, adds the score of the last frame to the
\* reward of every step.
ShapeRewardEveryStep ==
    /\ calc_pc = "reward"
    /\ IF use_tca
       THEN /\ reward' = [t \in 1..(Len(tensors.reward) - 1) |->
                            tensors.reward[t + 1] + (tensors.p[t + 1] - tensors.p[t])]
            /\ UNCHANGED tensors
       ELSE /\ tensors' = [tensors EXCEPT
                              !.reward = [t \in 1..Len(tensors.reward) |->
                                            tensors.reward[t] + tensors.p[Len(tensors.p)]]]
            /\ reward' = Tail(tensors'.reward)
    /\ calc_pc' = "shift"
    /\ UNCHANGED <<pipeVars, use_tca, vtrace_args, vtrace_returns>>

\* p = D(frame).view(-1, flags.batch_size) ... reward = reward[1:]: the score of
\* D is added into the reward.  With use_tca every frame is scored and step t
\* gets the difference of the scores of its frame and the one before; without,
\* the last frame is scored and the score is added, in place, to the last
\* reward.
ShapeReward ==
    /\ calc_pc = "reward"
    /\ IF use_tca
       THEN /\ reward' = [t \in 1..(Len(tensors.reward) - 1) |->
                            tensors.reward[t + 1] + (tensors.p[t + 1] - tensors.p[t])]
            /\ UNCHANGED tensors
       ELSE /\ tensors' = [tensors EXCEPT
                              !.reward[Len(tensors.reward)] = @ + tensors.p[Len(tensors.p)]]
            /\ reward' = Tail(tensors'.reward)
    /\ calc_pc' = "shift"
    /\ UNCHANGED <<pipeVars, use_tca, vtrace_args, vtrace_returns>>

\* discounts = (~env_outputs.done).float() * flags.discounting, after the shift
DiscountsOf(done) == [t \in 1..Len(done) |-> IF done[t] THEN 0 ELSE Discounting]

\* ShiftBatch with the learner's outputs shifted like the batch: the first
\* entry dropped instead of the last.
ShiftBatchLearnerTail ==
    /\ calc_pc = "shift"
    /\ vtrace_args' =
          [ behavior_policy_logits |-> Tail(tensors.actor_logits),
            target_policy_logits |-> Tail(tensors.learner_logits),
            actions |-> Tail(tensors.action),
            discounts |-> DiscountsOf(Tail(tensors.done)),
            rewards |-> reward,
            values |-> Tail(tensors.baseline),
            bootstrap_value |-> tensors.baseline[Len(tensors.baseline)] ]
    /\ calc_pc' = "vtrace"
    /\ UNCHANGED <<pipeVars, use_tca, tensors, reward, vtrace_returns>>

\* bootstrap_value = learner_outputs.baseline[-1]; batch = nest.map(lambda t:
\* t[1:], batch); learner_outputs = nest.map(lambda t: t[:-1], learner_outputs);
\* discounts; the keyword arguments of vtrace.from_logits
ShiftBatch ==
    /\ calc_pc = "shift"
    /\ vtrace_args' =
          [ behavior_policy_logits |-> Tail(tensors.actor_logits),
            target_policy_logits |-> Front(tensors.learner_logits),
            actions |-> Tail(tensors.action),
            discounts |-> DiscountsOf(Tail(tensors.done)),
            rewards |-> reward,
            values |-> Front(tensors.baseline),
            bootstrap_value |-> tensors.baseline[Len(tensors.baseline)] ]
    /\ calc_pc' = "vtrace"
    /\ UNCHANGED <<pipeVars, use_tca, tensors, reward, vtrace_returns>>

\* The importance ratio of step t, target policy to behaviour policy, clipped
\* at rho-bar.
Rho(args, t) ==
    Min(RhoBar, args.target_policy_logits[t] \div args.behavior_policy_logits[t])

\* vs[t] = V(x_t) + rho_t * (r_t + discount_t * vs[t+1] - V(x_t)), seeded at the
\* end by bootstrap_value.
RECURSIVE Vs(_, _)
Vs(args, t) ==
    IF t > Len(args.rewards)
    THEN args.bootstrap_value
    ELSE args.values[t]
         + Rho(args, t) * (args.rewards[t] + args.discounts[t] * Vs(args, t + 1)
                           - args.values[t])

\* rho_t * (r_t + discount_t * vs[t+1] - V(x_t))
PgAdvantage(args, t) ==
    Rho(args, t) * (args.rewards[t] + args.discounts[t] * Vs(args, t + 1)
                    - args.values[t])

\* vtrace.from_logits: the value targets and the policy-gradient advantages
Vtrace(args) ==
    [ vs |-> [t \in 1..Len(args.rewards) |-> Vs(args, t)],
      pg_advantages |-> [t \in 1..Len(args.rewards) |-> PgAdvantage(args, t)] ]

\* vtrace.from_logits that takes every discount for flags.discounting.
VtraceFromLogitsUndiscounted ==
    /\ calc_pc = "vtrace"
    /\ vtrace_returns' =
          Vtrace([vtrace_args EXCEPT
                     !.discounts = [t \in 1..Len(vtrace_args.discounts) |-> Discounting]])
    /\ calc_pc' = "done"
    /\ UNCHANGED <<pipeVars, use_tca, tensors, reward, vtrace_args>>

\* vtrace_returns = vtrace.from_logits(...)
VtraceFromLogits ==
    /\ calc_pc = "vtrace"
    /\ vtrace_returns' = Vtrace(vtrace_args)
    /\ calc_pc' = "done"
    /\ UNCHANGED <<pipeVars, use_tca, tensors, reward, vtrace_args>>

\* ---------------------------------------------------------------- specification

\* train() up to the step budget, the final checkpoint and the shutdown, with
\* every thread it starts.
CoreNext ==
    \/ MainLoad \/ MainInitCopies \/ MainStart \/ MainCheck \/ MainFinish
    \/ MainCloseBatcher \/ MainCloseQueue \/ MainJoinActor \/ MainJoinThread
    \/ \E i \in Learners :
          \/ LearnNext(i) \/ LearnPut(i) \/ LearnAcquire(i) \/ LearnOptStep(i)
          \/ LearnCopyFirst(i) \/ LearnCopyRest(i) \/ LearnStatsRead(i)
          \/ LearnStatsWrite(i)
    \/ \E d \in DLearners :
          \/ DGet(d) \/ DAcquire(d) \/ DOptStep(d) \/ DPublishFirst(d) \/ DPublishRest(d) \/ DStats(d)
    \/ \E j \in InfThreads :
          \/ InfNext(j) \/ InfGetImage(j) \/ InfAcquire(j) \/ InfForward(j)
    \/ LoaderPut
    \/ \E a \in ActorIds : ActorSubmit(a) \/ ActorSubmitClosed(a) \/ ActorPut(a)
    \/ ActorPoolReturn

\* One run: the interactive interruption and a failure of the actor pool may
\* come at any moment.
Next == CoreNext \/ MainInterrupt \/ ActorPoolRaise

\* A run of train() with --disable_checkpoint and no checkpoint file at startup.
Spec == Init /\ [][Next]_vars

\* The steps of one thread each.
LearnerStep(i) ==
    \/ LearnNext(i) \/ LearnPut(i) \/ LearnAcquire(i) \/ LearnOptStep(i)
    \/ LearnCopyFirst(i) \/ LearnCopyRest(i) \/ LearnStatsRead(i) \/ LearnStatsWrite(i)

DLearnerStep(d) ==
    DGet(d) \/ DAcquire(d) \/ DOptStep(d) \/ DPublishFirst(d) \/ DPublishRest(d) \/ DStats(d)

InferenceStep(j) ==
    InfNext(j) \/ InfGetImage(j) \/ InfAcquire(j) \/ InfForward(j)

ActorPoolStep ==
    \/ \E a \in ActorIds : ActorSubmit(a) \/ ActorSubmitClosed(a) \/ ActorPut(a)
    \/ ActorPoolReturn

ShutdownStep ==
    MainCloseBatcher \/ MainCloseQueue \/ MainJoinActor \/ MainJoinThread

\* As long as some thread other than the reporting loop can take a step, one
\* of them eventually does.  This asks less of the scheduler than fairness to
\* every single thread; nothing forces an interruption or a failure of the
\* actor pool.
Fairness ==
    WF_vars(ShutdownStep
            \/ (\E i \in Learners : LearnerStep(i))
            \/ (\E d \in DLearners : DLearnerStep(d))
            \/ (\E j \in InfThreads : InferenceStep(j))
            \/ LoaderPut \/ ActorPoolStep)

\* One run under a fair scheduler.
FairSpec == Spec /\ Fairness

\* Batching: several actors, batches of several unrolls, environment servers
\* that do not all give the same shapes.
InitBatch ==
    /\ main_pc = "load"
    /\ join_idx = 0
    /\ disable_checkpoint = TRUE
    /\ num_actors = ManyActors
    /\ batch_size = LargeBatchSize
    /\ max_learner_queue_size = None
    /\ env_shapes = {"frame", "other frame"}
    /\ interrupted = FALSE
    /\ disk = NoFile
    /\ last_ckpt = "none"
    /\ runs = 1
    /\ model_w = 0 /\ opt_n = 0 /\ sched_n = 0
    /\ D_w = 0 /\ Dopt_n = 0 /\ Dsched_n = 0
    /\ actor_w = [first |-> 0, rest |-> 0]
    /\ D_eval = [first |-> 0, rest |-> 0]
    /\ stats = EmptyStats
    /\ learn_lock = 0 /\ D_lock = 0 /\ inf_lock = 0
    /\ learner_pc = [i \in Learners |-> "unstarted"]
    /\ learner_batch = [i \in Learners |-> 0]
    /\ learner_rows = [i \in Learners |-> <<>>]
    /\ learner_step = [i \in Learners |-> 0]
    /\ dl_pc = [d \in DLearners |-> "unstarted"]
    /\ dl_pair = [d \in DLearners |-> 0]
    /\ inf_pc = [j \in InfThreads |-> "unstarted"]
    /\ inf_batch = [j \in InfThreads |-> {}]
    /\ inf_need = [j \in InfThreads |-> 0]
    /\ inf_done = [j \in InfThreads |-> {}]
    /\ inf_fresh = [j \in InfThreads |-> {}]
    /\ learner_queue = 0
    /\ queue_shapes = <<>>
    /\ queue_closed = FALSE
    /\ next_batch = 1
    /\ pending = {}
    /\ batcher_closed = FALSE
    /\ d_queue = <<>>
    /\ image_queue = 0
    /\ pool_pc = "unstarted"
    /\ actor_pc = [a \in Actors |-> "unstarted"]
    /\ actor_steps = [a \in Actors |-> 0]
    /\ supply = MaxUnrolls
    /\ loader_pc = "unstarted"
    /\ atWrite = NothingWritten
    /\ step0 = 0
    /\ n_completed = 0
    /\ forwarded = {}
    /\ applied = {}
    /\ n_put = 0
    /\ delivered = <<>>
    /\ n_consumed = 0
    /\ MathIdle

SpecBatch == InitBatch /\ [][Next]_vars

\* The same under a fair scheduler.
FairSpecBatch == SpecBatch /\ Fairness

\* Settings of --num_actors, --batch_size and --max_learner_queue_size: the
\* bound equal to the batch size, below it, and above it without being a
\* multiple of it.
QueueConfigs == {<<1, 1, 1>>, <<2, 2, 1>>, <<2, 2, 3>>}

\* The state after construction under the given flags.
InitFlags(actors, batch, queue_size) ==
    /\ main_pc = "load"
    /\ join_idx = 0
    /\ disable_checkpoint = TRUE
    /\ num_actors = actors
    /\ batch_size = batch
    /\ max_learner_queue_size = queue_size
    /\ env_shapes = {"frame"}
    /\ interrupted = FALSE
    /\ disk = NoFile
    /\ last_ckpt = "none"
    /\ runs = 1
    /\ model_w = 0 /\ opt_n = 0 /\ sched_n = 0
    /\ D_w = 0 /\ Dopt_n = 0 /\ Dsched_n = 0
    /\ actor_w = [first |-> 0, rest |-> 0]
    /\ D_eval = [first |-> 0, rest |-> 0]
    /\ stats = EmptyStats
    /\ learn_lock = 0 /\ D_lock = 0 /\ inf_lock = 0
    /\ learner_pc = [i \in Learners |-> "unstarted"]
    /\ learner_batch = [i \in Learners |-> 0]
    /\ learner_rows = [i \in Learners |-> <<>>]
    /\ learner_step = [i \in Learners |-> 0]
    /\ dl_pc = [d \in DLearners |-> "unstarted"]
    /\ dl_pair = [d \in DLearners |-> 0]
    /\ inf_pc = [j \in InfThreads |-> "unstarted"]
    /\ inf_batch = [j \in InfThreads |-> {}]
    /\ inf_need = [j \in InfThreads |-> 0]
    /\ inf_done = [j \in InfThreads |-> {}]
    /\ inf_fresh = [j \in InfThreads |-> {}]
    /\ learner_queue = 0
    /\ queue_shapes = <<>>
    /\ queue_closed = FALSE
    /\ next_batch = 1
    /\ pending = {}
    /\ batcher_closed = FALSE
    /\ d_queue = <<>>
    /\ image_queue = 0
    /\ pool_pc = "unstarted"
    /\ actor_pc = [a \in Actors |-> "unstarted"]
    /\ actor_steps = [a \in Actors |-> 0]
    /\ supply = MaxUnrolls
    /\ loader_pc = "unstarted"
    /\ atWrite = NothingWritten
    /\ step0 = 0
    /\ n_completed = 0
    /\ forwarded = {}
    /\ applied = {}
    /\ n_put = 0
    /\ delivered = <<>>
    /\ n_consumed = 0

InitQueues == \E cfg \in QueueConfigs : InitFlags(cfg[1], cfg[2], cfg[3]) /\ MathIdle

\* Queue bounds: the same program under each setting of QueueConfigs.
SpecQueues == InitQueues /\ [][Next]_vars

\* The returns of one batch: a learner holds an unroll of the learner queue
\* and the outputs of its forward passes, under either setting of use_tca.
InitReturns ==
    /\ InitFlags(NumActors, BatchSize, None)
    /\ use_tca \in BOOLEAN
    /\ tensors \in ShortUnrolls \cup LongUnrolls
    /\ calc_pc = "reward"
    /\ reward = <<>>
    /\ vtrace_args = <<>>
    /\ vtrace_returns = <<>>

ReturnsNext == ShapeReward \/ ShiftBatch \/ VtraceFromLogits

SpecReturns == InitReturns /\ [][ReturnsNext]_vars

\* Runs with periodic checkpoints, interruptions and restarts of the job.
ResumeNext == CoreNext \/ MainInterrupt \/ MainPeriodicCheckpoint \/ Restart

\* Checkpointing and resuming: either setting of disable_checkpoint, periodic
\* checkpoints, and restarts that find the file the earlier run left.
InitResume ==
    /\ main_pc = "load"
    /\ join_idx = 0
    /\ disable_checkpoint \in BOOLEAN
    /\ num_actors = NumActors
    /\ batch_size = BatchSize
    /\ max_learner_queue_size = None
    /\ env_shapes = {"frame"}
    /\ interrupted = FALSE
    /\ disk = NoFile
    /\ last_ckpt = "none"
    /\ runs = 1
    /\ model_w = 0 /\ opt_n = 0 /\ sched_n = 0
    /\ D_w = 0 /\ Dopt_n = 0 /\ Dsched_n = 0
    /\ actor_w = [first |-> 0, rest |-> 0]
    /\ D_eval = [first |-> 0, rest |-> 0]
    /\ stats = EmptyStats
    /\ learn_lock = 0 /\ D_lock = 0 /\ inf_lock = 0
    /\ learner_pc = [i \in Learners |-> "unstarted"]
    /\ learner_batch = [i \in Learners |-> 0]
    /\ learner_rows = [i \in Learners |-> <<>>]
    /\ learner_step = [i \in Learners |-> 0]
    /\ dl_pc = [d \in DLearners |-> "unstarted"]
    /\ dl_pair = [d \in DLearners |-> 0]
    /\ inf_pc = [j \in InfThreads |-> "unstarted"]
    /\ inf_batch = [j \in InfThreads |-> {}]
    /\ inf_need = [j \in InfThreads |-> 0]
    /\ inf_done = [j \in InfThreads |-> {}]
    /\ inf_fresh = [j \in InfThreads |-> {}]
    /\ learner_queue = 0
    /\ queue_shapes = <<>>
    /\ queue_closed = FALSE
    /\ next_batch = 1
    /\ pending = {}
    /\ batcher_closed = FALSE
    /\ d_queue = <<>>
    /\ image_queue = 0
    /\ pool_pc = "unstarted"
    /\ actor_pc = [a \in Actors |-> "unstarted"]
    /\ actor_steps = [a \in Actors |-> 0]
    /\ supply = ResumeUnrolls
    /\ loader_pc = "unstarted"
    /\ atWrite = NothingWritten
    /\ step0 = 0
    /\ n_completed = 0
    /\ forwarded = {}
    /\ applied = {}
    /\ n_put = 0
    /\ delivered = <<>>
    /\ n_consumed = 0
    /\ MathIdle

SpecResume == InitResume /\ [][ResumeNext]_vars

\* ---------------------------------------------------------------- properties

\* The update body of learn(): from lock.acquire() to lock.release().
UpdateBody == {"update", "copy_first", "copy_rest", "stats_read", "stats_write"}

LearnersInUpdateBody == {i \in Learners : learner_pc[i] \in UpdateBody}

\* C1: with the learner threads running learn() on the same model, at most one
\* of them is inside the update body at any instant.
C1_OneLearnerInUpdateBody == Cardinality(LearnersInUpdateBody) <= 1

\* One learner is inside the update body while another one waits for the lock.
C1_Witness ==
    \E i, k \in Learners :
        /\ i # k
        /\ learner_pc[i] \in UpdateBody
        /\ learner_pc[k] = "acquire"

\* C2: Stats.step is its starting value (0, or the restored one) plus
\* unroll_length * batch_size for every completed learner update, whatever the
\* interleaving of the learner threads, and within a run of the process it
\* never decreases.
C2_StepCountsCompletedUpdates ==
    /\ [](StatsGetStep(stats) = step0 + StepsPerUpdate * n_completed)
    /\ [][runs' = runs => StatsGetStep(stats') >= StatsGetStep(stats)]_vars

\* Both learner threads have completed an update.
C2_Witness ==
    /\ n_completed = 2
    /\ StatsGetStep(stats) = 2 * StepsPerUpdate

\* C3 as claimed: no inference thread is in its forward pass while a learner
\* thread is in the middle of actor_model.load_state_dict, so the forward pass
\* sees one version of the weights.
C3_ForwardNeverDuringOverwrite ==
    \A j \in InfThreads :
        inf_pc[j] = "forward" =>
            /\ \A i \in Learners : learner_pc[i] # "copy_rest"
            /\ actor_w.first = actor_w.rest

\* C4 as claimed: whenever the Stats mapping changes after the threads were
\* started, the thread that took the step is a learner holding the policy lock.
C4_StatsWrittenUnderPolicyLock ==
    [][(stats' # stats /\ main_pc \notin {"load", "done"}) =>
          \E i \in Learners : learn_lock = i /\ learner_pc'[i] # learner_pc[i]]_vars

\* C5 as claimed: the pair of a batch is on its way to the discriminator only
\* after the batch's optimizer step and snapshot overwrite.
C5_PairPutAfterUpdate == \A b \in forwarded : b \in applied

\* C5, amended: the pair of a batch is put before the learner takes the lock,
\* so a learner waiting for the lock or inside the update body has forwarded
\* the pair of its batch, and every applied batch was forwarded before.
C5_PairPutBeforeUpdate ==
    /\ \A i \in Learners :
          learner_pc[i] \in UpdateBody \cup {"acquire"} => learner_batch[i] \in forwarded
    /\ applied \subseteq forwarded

\* A learner is about to take its optimizer step; the pair of its batch has
\* left the queue already and the batch is not applied yet.
C5_Witness ==
    \E i \in Learners :
        /\ learner_pc[i] = "update"
        /\ learner_batch[i] \in forwarded \ applied
        /\ \A k \in 1..Len(d_queue) : d_queue[k] # learner_batch[i]

\* C6 as claimed: after the load at startup every component holds what it held
\* when the checkpoint was written.
C6_CheckpointRoundTrip ==
    (main_pc = "init_copies" /\ disk.exists) =>
        /\ model_w = atWrite.model
        /\ D_w = atWrite.D
        /\ opt_n = atWrite.optimizer
        /\ Dopt_n = atWrite.D_optimizer
        /\ sched_n = atWrite.scheduler
        /\ Dsched_n = atWrite.D_scheduler
        /\ stats = atWrite.stats

BudgetUnreachable ==
    /\ StatsGetStep(stats) < TotalSteps
    /\ ~BatchReady
    /\ \A i \in Learners : learner_pc[i] = "next"
    /\ \A a \in Actors : actor_pc[a] = "stopped"

\* C8 as claimed: once actors.run() has raised and the step budget is out of
\* reach, train() is not waiting in its reporting loop.
C8_ActorFailureEndsTrain ==
    (pool_pc = "raised" /\ BudgetUnreachable) => main_pc # "loop"

AfterLoop == {"close_batcher", "close_queue", "join_actor", "join_threads", "done"}

\* C9: the reporting loop is left normally only with Stats.step >= total_steps,
\* and then the final checkpoint is written unless checkpointing is disabled and
\* the shutdown follows; after an interruption no final checkpoint is written;
\* with disable_checkpoint no checkpoint is written at all.
C9_ExitAndFinalCheckpoint ==
    /\ main_pc = "finished" => StatsGetStep(stats) >= TotalSteps
    /\ main_pc # "crashed"
    /\ (main_pc \in AfterLoop /\ ~interrupted) =>
          /\ StatsGetStep(stats) >= TotalSteps
          /\ ~disable_checkpoint => (last_ckpt = "final" /\ disk.exists)
    /\ interrupted => (main_pc \in AfterLoop /\ last_ckpt # "final")
    /\ disable_checkpoint => (last_ckpt = "none" /\ ~disk.exists)

\* train() has returned after the budget was reached at the first check of a
\* restarted job, and the final checkpoint was written.
C9_Witness ==
    /\ main_pc = "done"
    /\ ~interrupted
    /\ runs = 2
    /\ n_completed = 0
    /\ last_ckpt = "final"

\* C10: whichever way the loop was left, train() closes the batcher and the
\* queue before it joins, joins the actorpool thread, the learner threads and
\* the inference threads, and returns without waiting for the learn_D threads
\* or the image loader.
C10_CloseThenJoin ==
    /\ main_pc \in {"join_actor", "join_threads", "done"} =>
          (batcher_closed /\ queue_closed)
    /\ main_pc \in {"join_threads", "done"} => pool_pc \in {"returned", "raised"}
    /\ main_pc = "join_threads" =>
          \A k \in 1..(join_idx - 1) : ThreadEnded(k)
    /\ main_pc = "done" =>
          /\ \A i \in Learners : learner_pc[i] = "returned"
          /\ \A j \in InfThreads : inf_pc[j] = "returned"
          /\ \A d \in DLearners : dl_pc[d] \in {"get", "acquire", "update", "publish", "publish_rest", "stats"}
          /\ loader_pc = "put"

\* train() has returned after an interruption while a learn_D thread is in the
\* middle of its update.
C10_Witness ==
    /\ main_pc = "done"
    /\ interrupted
    /\ \E d \in DLearners : dl_pc[d] = "publish"

\* A step of any thread of the pipeline.
PipelineStep ==
    \/ \E i \in Learners : LearnerStep(i)
    \/ \E d \in DLearners : DLearnerStep(d)
    \/ \E j \in InfThreads : InferenceStep(j)
    \/ LoaderPut
    \/ ActorPoolStep

\* The threads are running, nothing is closed and no thread has ended on an
\* exception.
PipelineOpen ==
    /\ main_pc = "loop"
    /\ pool_pc = "running"
    /\ ~batcher_closed /\ ~queue_closed
    /\ \A i \in Learners : learner_pc[i] # "failed"

C12_QueuesBounded ==
    /\ learner_queue <= MaxLearnerQueueSize
    /\ image_queue <= ImageQueueMaxSize
    /\ Len(d_queue) <= DQueueMaxSize
    /\ learner_queue >= MaxLearnerQueueSize =>
           \A a \in Actors : ~queue_closed => ~ENABLED ActorPut(a)
    /\ image_queue >= ImageQueueMaxSize => ~ENABLED LoaderPut
    /\ Len(d_queue) >= DQueueMaxSize => \A i \in Learners : ~ENABLED LearnPut(i)

C12_Witness ==
    /\ max_learner_queue_size # None
    /\ DQueueMaxSize > 0
    /\ Len(d_queue) = DQueueMaxSize
    /\ \E i \in Learners : learner_pc[i] = "put"
    /\ image_queue = ImageQueueMaxSize
    /\ loader_pc = "put"

\* C13: when an inference thread has finished fetching images for a batch, the
\* rows that received a new image are exactly the rows whose done flag is set:
\* as many images were taken as there are done rows, and every other row keeps
\* the image it came in with.
C13_OnlyDoneRowsRefetched ==
    \A j \in InfThreads :
        inf_pc[j] \in {"acquire", "forward"} => inf_fresh[j] = inf_done[j]

\* The discriminator update body of learn_D: from lock.acquire() returning to
\* lock.release().
DUpdateBody == {"update", "publish", "publish_rest", "stats"}

DLearnersInUpdateBody == {d \in DLearners : dl_pc[d] \in DUpdateBody}

\* C14: with the discriminator-learner threads running learn_D() on the same
\* discriminator, at most one of them is inside the update body at any instant,
\* and it is the one that holds the lock of learn_D.
C14_OneDLearnerInUpdateBody ==
    /\ Cardinality(DLearnersInUpdateBody) <= 1
    /\ \A d \in DLearnersInUpdateBody : D_lock = d

C14_Witness ==
    \E d, e \in DLearners :
        /\ d # e
        /\ dl_pc[d] = "publish"
        /\ dl_pc[e] = "acquire"

\* C15: the lock of learn, the lock of learn_D and the lock of inference are
\* three locks: a thread waiting for its own lock can take it whenever that
\* lock is free, whoever holds the other two.
C15_LocksAreDistinct ==
    /\ \A i \in Learners :
           (learner_pc[i] = "acquire" /\ learn_lock = 0) => ENABLED LearnAcquire(i)
    /\ \A d \in DLearners :
           (dl_pc[d] = "acquire" /\ D_lock = 0) => ENABLED DAcquire(d)
    /\ \A j \in InfThreads :
           (inf_pc[j] = "acquire" /\ inf_lock = 0) => ENABLED InfAcquire(j)

\* A policy update and a discriminator update in progress at the same time,
\* and an inference thread taking its lock meanwhile.
C15_Witness ==
    /\ \E i \in Learners : learner_pc[i] = "copy_first" /\ learn_lock = i
    /\ \E d \in DLearners : dl_pc[d] = "update" /\ D_lock = d
    /\ \E j \in InfThreads : inf_pc[j] = "acquire" /\ inf_lock = 0

\* How many optimizer steps of model the given part of actor_model lacks.
UpdatesBehind(part) == model_w - part

\* C16: from the initial copy at startup onward, every part of the actor-facing
\* policy copy lacks at most one optimizer step of the trained policy: the
\* difference is 0 or 1 at every instant.
C16_ActorCopyAtMostOneBehind ==
    main_pc \notin {"load", "init_copies"} =>
        /\ UpdatesBehind(actor_w.first) \in {0, 1}
        /\ UpdatesBehind(actor_w.rest) \in {0, 1}

\* The second update of a run: the optimizer step is taken, the copy not yet.
C16_Witness ==
    /\ model_w = 2
    /\ actor_w = [first |-> 1, rest |-> 1]
    /\ \E i \in Learners : learner_pc[i] = "copy_first"

\* C17: in runs whose only exceptional condition is the close at shutdown, the
\* actorpool thread never ends by re-raising and no learner thread ends on an
\* exception; a learner or inference thread that finds its queue closed can end
\* its iteration, and once train() is done every joined thread has returned
\* normally.
C17_ClosedConditionAbsorbed ==
    /\ pool_pc # "raised"
    /\ \A i \in Learners : learner_pc[i] # "failed"
    /\ \A i \in Learners :
           (learner_pc[i] = "next" /\ queue_closed) => ENABLED LearnNext(i)
    /\ \A j \in InfThreads :
           (inf_pc[j] = "next" /\ batcher_closed) => ENABLED InfNext(j)
    /\ (batcher_closed /\ queue_closed /\ pool_pc = "running"
           /\ \A a \in Actors : actor_pc[a] = "stopped") => ENABLED ActorPoolReturn
    /\ main_pc = "done" =>
           /\ pool_pc = "returned"
           /\ \A i \in Learners : learner_pc[i] = "returned"
           /\ \A j \in InfThreads : inf_pc[j] = "returned"

\* Every actor loop, the actorpool thread, a learner and an inference thread
\* have ended on the close while another learner is still in its update.
C17_Witness ==
    /\ batcher_closed /\ queue_closed
    /\ pool_pc = "returned"
    /\ \A a \in Actors : actor_pc[a] = "stopped"
    /\ \E i \in Learners : learner_pc[i] = "returned"
    /\ \E i \in Learners : learner_pc[i] \in UpdateBody
    /\ \E j \in InfThreads : inf_pc[j] = "returned"

\* No thread of train() has been started.
NothingStarted ==
    /\ pool_pc = "unstarted"
    /\ loader_pc = "unstarted"
    /\ \A a \in Actors : actor_pc[a] = "unstarted"
    /\ \A i \in Learners : learner_pc[i] = "unstarted"
    /\ \A d \in DLearners : dl_pc[d] = "unstarted"
    /\ \A j \in InfThreads : inf_pc[j] = "unstarted"

\* actor_model and D_eval hold the weights of model and D.
CopiesInitialised ==
    /\ actor_w = [first |-> model_w, rest |-> model_w]
    /\ D_eval = [first |-> D_w, rest |-> D_w]

\* Every component holds what the checkpoint file has under its own key.
AllFieldsRestored ==
    /\ model_w = disk.model_state_dict
    /\ D_w = disk.D_state_dict
    /\ opt_n = disk.optimizer_state_dict
    /\ Dopt_n = disk.D_optimizer_state_dict
    /\ sched_n = disk.scheduler_state_dict
    /\ Dsched_n = disk.D_scheduler_state_dict
    /\ stats = disk.stats

\* C18: no thread is started before the load and the initial copies are done,
\* and when train() is about to start its threads with a checkpoint file
\* present, every field of the file has been restored into its component,
\* actor_model and D_eval hold the restored weights and stats is the restored
\* mapping.
C18_RestoredBeforeStart ==
    /\ main_pc \in {"load", "init_copies", "start"} => NothingStarted
    /\ (main_pc = "start" /\ disk.exists) => (AllFieldsRestored /\ CopiesInitialised)

\* C19: every batch a learner holds stacks exactly batch_size unrolls of the
\* same shapes, and a learner whose batch failed the shape check holds none.
C19_BatchesExactAndUniform ==
    \A i \in Learners :
        /\ learner_batch[i] # 0 =>
              /\ Len(learner_rows[i]) = batch_size
              /\ SameShapes(learner_rows[i])
        /\ learner_rows[i] # <<>> => learner_batch[i] # 0
        /\ learner_pc[i] = "failed" =>
              (learner_batch[i] = 0 /\ learner_rows[i] = <<>>)

\* A learner is in its update with a batch of LargeBatchSize unrolls.
C19_Witness ==
    /\ batch_size = LargeBatchSize
    /\ \E i \in Learners :
           /\ learner_pc[i] = "update"
           /\ learner_batch[i] # 0
           /\ Len(learner_rows[i]) = LargeBatchSize

\* The requests an inference thread holds as its batch, over all threads.
InFlight == UNION {inf_batch[j] : j \in InfThreads}

\* Between the pull of a batch and its set_outputs.
HoldsBatch(j) == inf_pc[j] \in {"images", "acquire", "forward"}

\* The batches of the DynamicBatcher: their size, and where a request is.
BatchesWellFormed ==
    /\ \A j \in InfThreads :
           /\ HoldsBatch(j) =>
                 /\ Cardinality(inf_batch[j]) >= MinimumBatchSize
                 /\ Cardinality(inf_batch[j]) <= MaximumBatchSize
           /\ ~HoldsBatch(j) => inf_batch[j] = {}
    /\ \A j, k \in InfThreads : j # k => inf_batch[j] \cap inf_batch[k] = {}
    /\ pending \cap InFlight = {}
    /\ \A a \in Actors :
           /\ actor_pc[a] = "wait" => a \in pending \cup InFlight
           /\ (pool_pc = "running" /\ a \in pending \cup InFlight) => actor_pc[a] = "wait"

\* set_outputs: the step that ends a batch gives every caller of the batch that
\* is waiting its output, which takes it one environment step on, and nobody
\* else anything.
OutputsToOwnCallers ==
    \A j \in InfThreads :
        (HoldsBatch(j) /\ inf_batch'[j] = {}) =>
            /\ inf_pc[j] = "forward"
            /\ \A a \in Actors :
                   IF a \in inf_batch[j] /\ actor_pc[a] = "wait"
                   THEN /\ actor_pc'[a] = ActorAfterOutput(a)
                        /\ actor_steps'[a] = actor_steps[a] + 1
                   ELSE /\ actor_pc'[a] = actor_pc[a]
                        /\ actor_steps'[a] = actor_steps[a]

DeliveredOnce ==
    /\ \A m, n \in 1..Len(delivered) : m # n => delivered[m] # delivered[n]
    /\ \A m \in 1..Len(delivered) : delivered[m] \in 1..n_put

\* A producer blocked in submit or put on a closed batcher or queue can leave
\* with the closed condition.
BlockedProducersUnblock ==
    \A a \in Actors :
        /\ (pool_pc = "running" /\ batcher_closed /\ actor_pc[a] = "wait" /\ a \in pending)
              => ENABLED ActorSubmitClosed(a)
        /\ (pool_pc = "running" /\ queue_closed /\ actor_pc[a] = "put")
              => ENABLED ActorPut(a)

\* After the close nothing is accepted any more, and a producer that leaves its
\* submit or put leaves with the closed condition, which stops its loop.
ClosedRejects ==
    /\ batcher_closed => pending' \subseteq pending
    /\ queue_closed => (n_put' = n_put /\ learner_queue' <= learner_queue)
    /\ \A a \in Actors :
           /\ (batcher_closed /\ actor_pc[a] = "submit" /\ actor_pc'[a] # "submit")
                 => actor_pc'[a] = "stopped"
           /\ (batcher_closed /\ a \in pending /\ a \notin pending')
                 => actor_pc'[a] = "stopped"
           /\ (queue_closed /\ actor_pc[a] = "put" /\ actor_pc'[a] # "put")
                 => actor_pc'[a] = "stopped"

SingleStepZeroDiscount ==
    /\ calc_pc = "done"
    /\ Len(vtrace_args.rewards) = 1
    /\ vtrace_args.discounts[1] = 0

\* Bootstrap values to compare the returns under.
OtherBootstraps == {0, 1, 5}

\* C22: V-trace on a single-step unroll with zero discount: the value at the
\* horizon is bootstrap_value, the advantage is rho * (reward - V(x)), the value
\* target is V(x) + rho * (reward - V(x)), and the returns are the same
\* whatever the bootstrap value.
C22_SingleStepVtrace ==
    SingleStepZeroDiscount =>
        /\ Vs(vtrace_args, Len(vtrace_args.rewards) + 1) = vtrace_args.bootstrap_value
        /\ vtrace_returns.pg_advantages[1] =
              Rho(vtrace_args, 1) * (vtrace_args.rewards[1] - vtrace_args.values[1])
        /\ vtrace_returns.vs[1] =
              vtrace_args.values[1]
              + Rho(vtrace_args, 1) * (vtrace_args.rewards[1] - vtrace_args.values[1])
        /\ \A b \in OtherBootstraps :
               Vtrace([vtrace_args EXCEPT !.bootstrap_value = b]) = vtrace_returns

\* A single step with zero discount, an importance ratio that is not clipped
\* away, a reward that differs from the value and a bootstrap value that is not 0.
C22_Witness ==
    /\ SingleStepZeroDiscount
    /\ Rho(vtrace_args, 1) = 1
    /\ vtrace_args.rewards[1] # vtrace_args.values[1]
    /\ vtrace_args.bootstrap_value = 1
    /\ vtrace_returns.pg_advantages[1] # 0

\* unroll_length of the unroll in hand: it has unroll_length + 1 entries.
T == Len(tensors.reward) - 1

\* The arguments of vtrace.from_logits have been built.
Shifted == calc_pc \in {"vtrace", "done"}

\* C23: after the shift every V-trace input has unroll_length time steps, with
\* or without use_tca: entry t holds the actor's logits and action and the
\* environment's done flag of index t+1 and the learner's logits and baseline
\* of index t, the bootstrap value is the learner's baseline at the last index,
\* and the discount of a step is 0 exactly when its done flag is set and
\* flags.discounting otherwise.
C23_ShiftAlignsInputs ==
    Shifted =>
        /\ Len(vtrace_args.behavior_policy_logits) = T
        /\ Len(vtrace_args.target_policy_logits) = T
        /\ Len(vtrace_args.actions) = T
        /\ Len(vtrace_args.discounts) = T
        /\ Len(vtrace_args.rewards) = T
        /\ Len(vtrace_args.values) = T
        /\ \A t \in 1..T :
               /\ vtrace_args.behavior_policy_logits[t] = tensors.actor_logits[t + 1]
               /\ vtrace_args.actions[t] = tensors.action[t + 1]
               /\ vtrace_args.target_policy_logits[t] = tensors.learner_logits[t]
               /\ vtrace_args.values[t] = tensors.baseline[t]
               /\ vtrace_args.discounts[t] = 0 <=> tensors.done[t + 1]
               /\ ~tensors.done[t + 1] => vtrace_args.discounts[t] = Discounting
        /\ vtrace_args.bootstrap_value = tensors.baseline[T + 1]

\* An unroll of LongUnroll steps whose middle entry ends an episode, shifted
\* under use_tca.
C23_Witness ==
    /\ calc_pc = "done"
    /\ use_tca
    /\ T = LongUnroll
    /\ tensors.done = <<FALSE, TRUE, FALSE>>
    /\ vtrace_args.discounts = <<0, Discounting>>

\* The sum of the entries of a tensor.
RECURSIVE Sum(_)
Sum(t) == IF Len(t) = 0 THEN 0 ELSE Head(t) + Sum(Tail(t))

\* What the step that shapes the reward adds to the environment's reward of
\* each time step.
Bonus == [t \in 1..T |-> reward'[t] - tensors.reward[t + 1]]

\* The reward shaping, as a step: without use_tca only the last step gets a
\* bonus, the score of the last frame; with use_tca step t gets the score of
\* frame t minus that of the frame before, and the bonuses sum to the score
\* of the last frame minus that of the first.
RewardShaped ==
    (calc_pc = "reward" /\ calc_pc' = "shift") =>
        /\ Len(reward') = T
        /\ IF use_tca
           THEN /\ \A t \in 1..T : Bonus[t] = tensors.p[t + 1] - tensors.p[t]
                /\ Sum(Bonus) = tensors.p[T + 1] - tensors.p[1]
           ELSE \A t \in 1..T : Bonus[t] = IF t = T THEN tensors.p[T + 1] ELSE 0

\* C24: the reward shaping of learn() adds, in final-frame mode, the score of
\* the last frame to the last step only, and in temporal-credit-assignment
\* mode the difference of the scores of consecutive frames to each step; the
\* shaped reward is the reward V-trace receives.
C24_RewardShaping ==
    /\ [][RewardShaped]_vars
    /\ [](Shifted => vtrace_args.rewards = reward)

\* Final-frame mode on an unroll of LongUnroll steps: the last frame scores 3,
\* the environment's rewards are 1 and 0, V-trace receives 1 and 3.
C24_Witness ==
    /\ calc_pc = "done"
    /\ ~use_tca
    /\ T = LongUnroll
    /\ tensors.p[T + 1] = 3
    /\ vtrace_args.rewards = <<1, 3>>

\* C26 as claimed: no learner thread is in the part of its update that scores
\* the frames with D_eval while a learn_D thread is in the middle of
\* D_eval.load_state_dict, so the scores come from one version of the weights.
C26_ScoringNeverDuringRepublish ==
    \A i \in Learners :
        learner_pc[i] = "update" =>
            /\ \A d \in DLearners : dl_pc[d] # "publish_rest"
            /\ D_eval.first = D_eval.rest

\* An exception raised inside the update body of learn() (by a forward or
\* backward pass, the optimizer, the statistics or the logger): nothing catches
\* it, the thread ends, and lock.release() at the end of the body is not
\* reached.
LearnRaise(i) ==
    /\ learner_pc[i] \in UpdateBody
    /\ learner_pc' = [learner_pc EXCEPT ![i] = "failed"]
    /\ UNCHANGED <<mainVars, modelVars, stats, lockVars, learner_batch, learner_rows,
                   learner_step, dlVars, infVars, queueVars, actorVars, histVars, mathVars>>

\* The same inside the update body of learn_D().
DRaise(d) ==
    /\ dl_pc[d] \in DUpdateBody
    /\ dl_pc' = [dl_pc EXCEPT ![d] = "failed"]
    /\ UNCHANGED <<mainVars, modelVars, stats, lockVars, learnerVars, dl_pair, infVars,
                   queueVars, actorVars, histVars, mathVars>>

FaultNext ==
    \/ CoreNext
    \/ \E i \in Learners : LearnRaise(i)
    \/ \E d \in DLearners : DRaise(d)

\* One run, neither interrupted nor with a failing actor pool, in which the
\* update bodies may raise.
SpecFaults == Init /\ [][FaultNext]_vars

\* C25 as claimed: whenever no learn thread is inside its update body the lock
\* of learn is free, and whenever no learn_D thread is inside its update body
\* the lock of learn_D is free, also after a thread has ended on an exception
\* raised inside its update body.
C25_LockFreeOutsideUpdates ==
    /\ LearnersInUpdateBody = {} => learn_lock = 0
    /\ DLearnersInUpdateBody = {} => D_lock = 0


\* --------------------------------------------------------------------- C27

\* A checkpoint record whose step count, policy optimizer state and policy
\* schedule state all reflect the optimizer steps in its policy weights.
ConsistentSnapshot(rec) ==
    /\ StatsGetStep(rec.stats) = step0 + StepsPerUpdate * rec.model_state_dict
    /\ rec.optimizer_state_dict = rec.model_state_dict
    /\ rec.scheduler_state_dict = rec.model_state_dict

\* C27 as claimed: every checkpoint written by a run that started from scratch
\* is a consistent snapshot: its saved step count is the starting step plus
\* unroll_length * batch_size for each optimizer step in its saved policy
\* weights, and its optimizer and schedule states reflect the same number of
\* steps.  The code violates it: checkpoint() takes no lock, so a checkpoint
\* can fall between optimizer.step() and the write of stats["step"].
C27_CheckpointConsistent ==
    (disk.exists /\ runs = 1) => ConsistentSnapshot(disk)


\* --------------------------------------------------------------------- C28

\* The positions where a thread waits on a queue: the learner iterating the
\* learner queue or putting on the discriminator's queue, the discriminator
\* learner in queue.get(), inference iterating the batcher or in
\* image_queue.get().
LearnerAtQueue(i) == learner_pc[i] \in {"next", "put"}
DLearnerAtQueue(d) == dl_pc[d] = "get"
InferenceAtQueue(j) == inf_pc[j] \in {"next", "images"}

\* C28: no thread is at a queue operation while it holds a lock: a learner at
\* the learner queue or at d_queue.put does not hold the policy lock, a
\* discriminator learner at queue.get does not hold the discriminator lock, and
\* an inference thread at the batcher or at image_queue.get does not hold the
\* inference lock.
C28_NoQueueWaitUnderLock ==
    /\ \A i \in Learners : LearnerAtQueue(i) => learn_lock # i
    /\ \A d \in DLearners : DLearnerAtQueue(d) => D_lock # d
    /\ \A j \in InfThreads : InferenceAtQueue(j) => inf_lock # j

\* A discriminator learner waits on the empty queue while the other one holds
\* the discriminator lock, and a learner waits to put while the policy lock is
\* held.
C28_Witness ==
    /\ \E d, e \in DLearners :
          d # e /\ DLearnerAtQueue(d) /\ d_queue = <<>> /\ D_lock = e
    /\ \E i, k \in Learners :
          i # k /\ learner_pc[i] = "put" /\ learn_lock = k


\* --------------------------------------------------------------------- C29

\* Batches the learner threads have taken from the learner queue.
BatchesTaken == next_batch - 1

\* Discriminator learners that hold a pair and wait for the lock.
DLearnersWaiting == {d \in DLearners : dl_pc[d] = "acquire"}

\* Discriminator updates started: pairs taken whose thread has passed
\* lock.acquire().
DUpdatesStarted == n_consumed - Cardinality(DLearnersWaiting)

\* Pairs in the discriminator learners' hands.
PairsInHand == {dl_pair[d] : d \in {e \in DLearners : dl_pair[e] # 0}}

\* C29 as claimed: at every instant the number of pairs forwarded equals the
\* number of discriminator updates started plus the number of pairs still in
\* the queue, and the completed policy updates never exceed the batches taken.
\* Violated while a discriminator learner holds a pair and waits for the lock.
C29_ForwardedIsStartedPlusQueued ==
    /\ Cardinality(forwarded) = DUpdatesStarted + Len(d_queue)
    /\ n_completed <= BatchesTaken

\* C29 amended: each batch taken is forwarded as one pair, unless its learner
\* is still at d_queue.put; the pairs forwarded are the pairs taken from the
\* queue by the discriminator learners plus the pairs still in it; no pair is
\* in two discriminator learners' hands or both in hand and in the queue; and
\* the completed policy updates never exceed the batches taken.
C29_ForwardedIsTakenPlusQueued ==
    /\ BatchesTaken = Cardinality(forwarded)
                        + Cardinality({i \in Learners : learner_pc[i] = "put"})
    /\ Cardinality(forwarded) = n_consumed + Len(d_queue)
    /\ \A d, e \in DLearners : (d # e /\ dl_pair[d] # 0) => dl_pair[d] # dl_pair[e]
    /\ \A k \in 1..Len(d_queue) : d_queue[k] \notin PairsInHand
    /\ n_completed <= BatchesTaken

\* Two pairs forwarded: one being applied by a discriminator learner, the
\* other taken by the second one, which waits for the lock; one policy update
\* is complete.
C29_Witness ==
    /\ Cardinality(forwarded) >= 2
    /\ DLearnersWaiting # {}
    /\ DUpdatesStarted >= 1
    /\ n_completed >= 1

=============================================================================
